---------------------------- MODULE Spec2Model ----------------------------
(***************************************************************************)
(* State-machine model of the media-analysis backend in src/main.py.       *)
(*                                                                         *)
(* State: the in-process task registry (processing_tasks), the external    *)
(* "assessments" table, the wall clock, the background runs accepted so    *)
(* far, the local variables of the run the event loop is executing, and    *)
(* the delete_file worker threads.                                         *)
(*                                                                         *)
(* Scheduling, as the source fixes it:                                     *)
(*  - analyze_file and analyze_video_task are `async def` and contain no   *)
(*    suspending await (requests, subprocess, the OpenAI and Supabase      *)
(*    clients are all blocking calls; transcribe_chunks,                   *)
(*    analyze_text_chunks and merge_analyses are coroutines without an     *)
(*    await of their own).  Both therefore execute on the event loop, one  *)
(*    at a time: analyze_file is one atomic step, and while a background   *)
(*    run is executing no other coroutine is served.  A run that has been  *)
(*    scheduled with add_task is started later, after the response has     *)
(*    been sent; other requests may be served in between.                  *)
(*  - delete_file is a plain `def`: it is executed by a worker thread,     *)
(*    whose steps interleave with everything, a running background run     *)
(*    included.                                                            *)
(* Every external call (object store, ffmpeg, speech-to-text, LLM, table)  *)
(* either returns or raises; the outcome is a nondeterministic input.      *)
(***************************************************************************)
EXTENDS Integers, Sequences, FiniteSets, TLC

VARIABLES processing_tasks, assessments, now, runs, cur, deleters, lastResp,
          call

vars == <<processing_tasks, assessments, now, runs, cur, deleters, lastResp,
         call>>

-----------------------------------------------------------------------------
(* Bounds of the model *)

\* background runs accepted during one behaviour
MaxRuns == 2
\* concurrent delete_file worker threads
MaxDeleters == 1
\* pieces the download stream is delivered in
MaxParts == 2
\* chunks split_audio may return
MaxChunks == 2
\* characters of a transcript handed to split_text on its own
MaxTextLen == 6
\* window budgets (max_tokens) split_text is applied with on its own
MaxTokens == 2
\* characters of the text one speech-to-text call returns, when
\* transcribe_chunks is applied on its own
MaxReplyLen == 1
\* partial analyses handed to merge_analyses on its own
MaxAnalyses == 3
\* frames of an audio file handed to split_audio on its own
MaxFrames == 4
\* ceilings (max_size_mb) split_audio is applied with on its own
MaxSizeMb == 2

-----------------------------------------------------------------------------
(* Values *)

\* (staff_id, filename) pairs the requests are about
Identities == {<<"s1", "a.mp4">>, <<"s2", "b.mp4">>}

\* parsed JSON objects an LLM call may return
Analyses == {"A1", "A2"}

\* progress values are kept as multiples of 1/Scale; every fraction the
\* code computes for up to 6 chunks, windows or parts is then an integer
Scale == 60 * 100

\* num/den of the full progress range
Frac(num, den) == (num * Scale) \div den

\* split_text: max_tokens (default) and chars_per_token = 2.5 = 5/2
max_tokens == 4000
max_chars == (max_tokens * 5) \div 2

\* lengths of the text one speech-to-text call may return: nothing
\* (silence) or a full window
WhisperLens == {0, max_chars}

None == "None"

\* completed_at: Optional[str] = None; a time t that has been set is <<t>>
NoTime == <<>>

\* task_key = f"{staff_id}:{filename}"
TaskKey(id) == id[1] \o ":" \o id[2]

TaskKeys == {TaskKey(id) : id \in Identities}

\* absence of a key in the processing_tasks dict
NoTask == [status |-> "absent", progress |-> 0, message |-> None,
           started_at |-> 0, completed_at |-> NoTime, error |-> None,
           owner |-> 0]

\* variant: the handler leaves the record to be created by the run
NewTaskLate(t, r) == NoTask

\* TaskStatus(...) as analyze_file constructs it; owner (not a field of the
\* program) records the run that is scheduled together with the record
NewTask(t, r) == [status |-> "processing", progress |-> 0,
                  message |-> "starting", started_at |-> t,
                  completed_at |-> NoTime, error |-> None, owner |-> r]

HasTask(tasks, key) == tasks[key] # NoTask

\* GET /task-status/{staff_id}/{filename}: reads the registry and changes
\* nothing; the answer is the record under task_key, or 404
get_task_status(tasks, id) ==
    IF HasTask(tasks, TaskKey(id))
    THEN [code |-> 200, body |-> tasks[TaskKey(id)]]
    ELSE [code |-> 404, body |-> NoTask]

-----------------------------------------------------------------------------
(* The assessments table: a sequence of rows (the table has no uniqueness  *)
(* constraint the program relies on, so duplicates are representable)      *)

Row(id, analysis, t) == [staff |-> id[1], filename |-> id[2],
                         analysis |-> analysis, created_at |-> t]

RowMatches(row, id) == row.staff = id[1] /\ row.filename = id[2]

\* select("*").eq("staff", ..).eq("filename", ..)
SelectRows(rows, id) == SelectSeq(rows, LAMBDA row : RowMatches(row, id))

\* variant: the delete removes nothing
DeleteRowsNothing(rows, id) == rows

\* delete().eq("staff", ..).eq("filename", ..)
DeleteRows(rows, id) == SelectSeq(rows, LAMBDA row : ~RowMatches(row, id))

\* insert(data)
InsertRow(rows, row) == Append(rows, row)

-----------------------------------------------------------------------------
(* Pure helpers of the pipeline *)

\* update_progress(message, progress): writes only when the key is present
update_progress(tasks, key, message, progress) ==
    IF HasTask(tasks, key)
    THEN [tasks EXCEPT ![key].message = message, ![key].progress = progress]
    ELSE tasks

\* 0.01 + (downloaded/total_size) * 0.09
DownloadProgress(downloaded, total) ==
    Frac(1, 100) + (downloaded * Frac(9, 100)) \div total

\* (i / total_chunks) * 0.5
ChunkProgress(i, total) == (i * Frac(1, 2)) \div total

\* 0.5 + (i / total_chunks) * 0.4
WindowProgress(i, total) == Frac(1, 2) + (i * Frac(4, 10)) \div total

\* number of windows split_text returns for a text of `len` characters:
\* one per start index in range(0, len, max_chars)
SplitTextCount(len) == (len + max_chars - 1) \div max_chars

\* length of " ".join(transcripts) after appending one more transcript
JoinLen(i, sofar, len) == IF i = 0 THEN len ELSE sofar + 1 + len

\* the JSON text of a parsed analysis object
ToJson(a) == "{" \o a \o "}"

\* json.dumps(analyses): the array of the objects' texts, in list order
json_dumps(analyses) == [k \in 1..Len(analyses) |-> ToJson(analyses[k])]

\* a code-fence marker (three backquotes) in a message content
Fence == "fence"

\* message contents an LLM call may return: nothing, an object, an object
\* wrapped in code-fence markers, something that is not JSON
LLMContents ==
    {<<>>, <<"junk">>}
       \cup {<<ToJson(a)>> : a \in Analyses}
       \cup {<<Fence, ToJson(a), Fence>> : a \in Analyses}

\* json.loads(content): the object when the content is exactly the text of
\* one object; it raises on anything else
json_loads(content) ==
    IF Len(content) = 1 /\ \E a \in Analyses : content[1] = ToJson(a)
    THEN [ok |-> TRUE,
          value |-> CHOOSE a \in Analyses : content[1] = ToJson(a)]
    ELSE [ok |-> FALSE, value |-> None]

\* outcome of one chat.completions.create call: it raises, or it returns
\* a message content
LLMReplies == {[ok |-> FALSE, content |-> <<>>]}
                 \cup {[ok |-> TRUE, content |-> c] : c \in LLMContents}

\* variant: the LLM is called for a single analysis as well
MergeAnalysesAlwaysCalls(analyses, reply) ==
    [ok |-> reply.ok /\ json_loads(reply.content).ok,
     value |-> IF reply.ok THEN json_loads(reply.content).value ELSE None,
     calls |-> <<json_dumps(analyses)>>]

\* merge_analyses as a function of the list and of the outcome of the LLM
\* call it may make: the value it returns (ok = it does not raise) and the
\* user contents of the LLM calls it made
MergeAnalyses(analyses, reply) ==
    IF Len(analyses) = 1
    THEN [ok |-> TRUE, value |-> analyses[1], calls |-> <<>>]
    ELSE [ok |-> reply.ok /\ json_loads(reply.content).ok,
          value |-> IF reply.ok THEN json_loads(reply.content).value
                    ELSE None,
          calls |-> <<json_dumps(analyses)>>]

-----------------------------------------------------------------------------
(* Run bookkeeping *)

\* no background run is executing on the event loop
Idle == [r |-> 0, pc |-> "idle", err |-> None, hasLength |-> FALSE,
         parts |-> 0, k |-> 0, n |-> 0, i |-> 0, tlen |-> 0, w |-> 0,
         j |-> 0, analyses |-> <<>>, final |-> None, created |-> 0]

RunIds == 1..Len(runs)

CurId == runs[cur.r].id

CurKey == TaskKey(CurId)

IdleDeleter == [pc |-> "idle", id |-> <<>>]

\* the answer analyze_file has just given, with the request it answers
\* (its force flag, whether its last read of the table returned, the status
\* of the record it found); it is NoResp in every state that is not the one
\* right after a request
NoResp == [kind |-> "none", id |-> <<>>, force |-> FALSE, readOk |-> TRUE,
           replaced |-> None, analysis |-> None]

\* no application of a helper function is being looked at on its own
NoCall == [fn |-> "none", done |-> FALSE]

Init ==
    /\ processing_tasks = [key \in TaskKeys |-> NoTask]
    /\ \E have \in SUBSET {<<"s1", "a.mp4">>} :
          assessments = IF have = {} THEN <<>>
                        ELSE <<Row(<<"s1", "a.mp4">>, "A1", 0)>>
    /\ now = 1
    /\ runs = <<>>
    /\ cur = Idle
    /\ deleters = [d \in 1..MaxDeleters |-> IdleDeleter]
    /\ lastResp = NoResp
    /\ call = NoCall


-----------------------------------------------------------------------------
(* POST /analyze/{staff_id}/{filename}: one atomic step on the event loop  *)

\* variant: a forced request restarts a run that is still processing
AnalyzeDecisionForceRestarts(task, force, rows, ok1, ok2) ==
    IF task # NoTask /\ task.status = "processing" /\ ~force
    THEN [kind |-> "processing", analysis |-> None]
    ELSE IF ~force /\ ok2 /\ Len(rows) > 0
    THEN [kind |-> "analysis", analysis |-> rows[1].analysis]
    ELSE [kind |-> "started", analysis |-> None]

\* variant: the stored result is looked up for completed records only, so
\* that a request on an errored record always starts a run
AnalyzeDecisionRetryAlways(task, force, rows, ok1, ok2) ==
    IF task # NoTask /\ task.status = "processing"
    THEN [kind |-> "processing", analysis |-> None]
    ELSE IF task # NoTask /\ task.status = "completed" /\ ~force
            /\ ok1 /\ Len(rows) > 0
    THEN [kind |-> "analysis", analysis |-> rows[1].analysis]
    ELSE IF task = NoTask /\ ~force /\ ok2 /\ Len(rows) > 0
    THEN [kind |-> "analysis", analysis |-> rows[1].analysis]
    ELSE [kind |-> "started", analysis |-> None]

\* what the handler answers and whether it goes on to start a run, from the
\* record under task_key, the force flag, the rows the table holds for the
\* identity, and the outcome of each of the two reads of the table (ok1 at
\* the "completed" branch, ok2 at the "existing result" check): the read
\* returns, or it raises and the exception is printed and swallowed
AnalyzeDecision(task, force, rows, ok1, ok2) ==
    IF task # NoTask /\ task.status = "processing"
    THEN [kind |-> "processing", analysis |-> None]
    ELSE IF task # NoTask /\ task.status = "completed" /\ ~force
            /\ ok1 /\ Len(rows) > 0
    THEN [kind |-> "analysis", analysis |-> rows[1].analysis]
    ELSE IF ~force /\ ok2 /\ Len(rows) > 0
    THEN [kind |-> "analysis", analysis |-> rows[1].analysis]
    ELSE [kind |-> "started", analysis |-> None]

\* variant: the record is created but the run is not handed to add_task
NewRunNotScheduled(id, force, task, rows) ==
    [id |-> id, st |-> "done", force |-> force,
     replaced |-> task.status, prevRows |-> rows, wrote |-> FALSE,
     files |-> {}, outcome |-> None]

\* a run accepted by analyze_file and handed to background_tasks.add_task.
\* Beside the identity and the scheduling state, bookkeeping that the
\* properties read: the request's force flag, the status of the record the
\* new record replaced and the rows stored at that moment; whether the
\* run's save step was entered; the files the run has created and not
\* removed; how it ended
NewRun(id, force, task, rows) ==
    [id |-> id, st |-> "pending", force |-> force,
     replaced |-> task.status, prevRows |-> rows, wrote |-> FALSE,
     files |-> {}, outcome |-> None]

analyze_file(id, force, ok1, ok2) ==
    /\ cur.r = 0
    /\ LET key == TaskKey(id)
           rows == SelectRows(assessments, id)
           dec == AnalyzeDecision(processing_tasks[key], force, rows, ok1, ok2)
       IN  /\ lastResp' = [kind |-> dec.kind, id |-> id, force |-> force,
                           readOk |-> force \/ ok2,
                           replaced |-> processing_tasks[key].status,
                           analysis |-> dec.analysis]
           /\ IF dec.kind = "started"
              THEN /\ Len(runs) < MaxRuns
                   /\ processing_tasks' =
                         [processing_tasks EXCEPT
                             ![key] = NewTask(now, Len(runs) + 1)]
                   /\ runs' = Append(runs, NewRun(id, force,
                                                  processing_tasks[key], rows))
              ELSE UNCHANGED <<processing_tasks, runs>>
    /\ UNCHANGED <<assessments, now, cur, deleters, call>>

-----------------------------------------------------------------------------
(* DELETE /delete/{staff_id}/{filename}: a worker thread, three steps      *)

\* the request is dispatched and storage.remove is called; when it raises
\* the handler answers 500 and nothing else is done
delete_file_remove(d, id, ok) ==
    /\ cur.r = 0
    /\ deleters[d].pc = "idle"
    /\ deleters' = [deleters EXCEPT
                       ![d] = IF ok THEN [pc |-> "assess", id |-> id]
                              ELSE IdleDeleter]
    /\ lastResp' = NoResp
    /\ UNCHANGED <<processing_tasks, assessments, now, runs, cur, call>>

\* the rows of the identity are deleted; an exception is swallowed
delete_file_assessments(d, ok) ==
    /\ deleters[d].pc = "assess"
    /\ assessments' = IF ok THEN DeleteRows(assessments, deleters[d].id)
                      ELSE assessments
    /\ deleters' = [deleters EXCEPT ![d].pc = "evict"]
    /\ lastResp' = NoResp
    /\ UNCHANGED <<processing_tasks, now, runs, cur, call>>

\* if task_key in processing_tasks: del processing_tasks[task_key]
EvictTask(tasks, key) == [tasks EXCEPT ![key] = NoTask]

delete_file_evict(d) ==
    /\ deleters[d].pc = "evict"
    /\ processing_tasks' = EvictTask(processing_tasks, TaskKey(deleters[d].id))
    /\ deleters' = [deleters EXCEPT ![d] = IdleDeleter]
    /\ lastResp' = NoResp
    /\ UNCHANGED <<assessments, now, runs, cur, call>>

-----------------------------------------------------------------------------
(* analyze_video_task: the background run.  Each step is one write to the  *)
(* task record followed by the external call the code makes next.          *)

\* the step at cur.pc of the run being executed
AtPc(pc) == cur.r # 0 /\ cur.pc = pc

\* an exception is raised at stage `stage`: control goes to the handler
\* (the locals of the stages are dead from here on and are cleared; so
\* are, below, the locals of every stage that has been left)
Raise(stage) == [Idle EXCEPT !.r = cur.r, !.pc = "except", !.err = stage]

AddFiles(fs) == [runs EXCEPT ![cur.r].files = @ \cup fs]

\* files inside the TemporaryDirectory: removed when its block is left
TempDirFiles == {"audio", "chunks"}

\* the event loop starts a scheduled run
run_begin(r) ==
    /\ cur.r = 0
    /\ r \in RunIds
    /\ runs[r].st = "pending"
    /\ runs' = [runs EXCEPT ![r].st = "running"]
    /\ cur' = [Idle EXCEPT !.r = r, !.pc = "download"]
    /\ lastResp' = NoResp
    /\ UNCHANGED <<processing_tasks, assessments, now, deleters, call>>

\* update 0.01; create_signed_url, NamedTemporaryFile, requests.get.
\* outcome: "sign" (create_signed_url raises, no file yet), "get" (the
\* request raises or answers a status other than 200) or "ok", in which
\* case the body arrives in `parts` pieces and hasLength tells whether a
\* content-length header came with it
run_download(outcome, parts, hasLength) ==
    /\ AtPc("download")
    /\ processing_tasks' =
          update_progress(processing_tasks, CurKey, "download", Frac(1, 100))
    /\ now' = now + 1
    /\ runs' = IF outcome = "sign" THEN runs ELSE AddFiles({"video"})
    /\ cur' = IF outcome # "ok" THEN Raise("download")
              ELSE IF parts = 0 THEN [cur EXCEPT !.pc = "extract"]
              ELSE [cur EXCEPT !.pc = "dlpart", !.parts = parts,
                               !.hasLength = hasLength]
    /\ lastResp' = NoResp
    /\ UNCHANGED <<assessments, deleters, call>>

\* one iteration of iter_content: the piece is written and, when the total
\* size is known, the progress updated; or the stream raises
run_download_part(ok) ==
    /\ AtPc("dlpart")
    /\ IF ok
       THEN /\ processing_tasks' =
                  IF cur.hasLength
                  THEN update_progress(processing_tasks, CurKey, "downloading",
                                       DownloadProgress(cur.k + 1, cur.parts))
                  ELSE processing_tasks
            /\ cur' = IF cur.k + 1 = cur.parts
                      THEN [cur EXCEPT !.k = 0, !.parts = 0,
                                       !.hasLength = FALSE, !.pc = "extract"]
                      ELSE [cur EXCEPT !.k = @ + 1]
       ELSE /\ cur' = Raise("download")
            /\ UNCHANGED processing_tasks
    /\ lastResp' = NoResp
    /\ UNCHANGED <<assessments, now, runs, deleters, call>>

\* update 0.1; TemporaryDirectory; ffmpeg extracts the audio
run_extract(ok) ==
    /\ AtPc("extract")
    /\ processing_tasks' =
          update_progress(processing_tasks, CurKey, "extract", Frac(1, 10))
    /\ runs' = AddFiles({"audio"})
    /\ cur' = IF ok THEN [cur EXCEPT !.pc = "split"] ELSE Raise("extract")
    /\ lastResp' = NoResp
    /\ UNCHANGED <<assessments, now, deleters, call>>

\* update 0.2; makedirs; split_audio returns n chunk files or raises
run_split(ok, n) ==
    /\ AtPc("split")
    /\ processing_tasks' =
          update_progress(processing_tasks, CurKey, "split", Frac(2, 10))
    /\ runs' = AddFiles({"chunks"})
    /\ cur' = IF ok THEN [cur EXCEPT !.pc = "stt_begin", !.n = n]
              ELSE Raise("split")
    /\ lastResp' = NoResp
    /\ UNCHANGED <<assessments, now, deleters, call>>

\* update 0.3, the number of chunks in the message
run_transcribe_begin ==
    /\ AtPc("stt_begin")
    /\ processing_tasks' =
          update_progress(processing_tasks, CurKey, "stt_begin", Frac(3, 10))
    /\ cur' = [cur EXCEPT !.pc = "stt", !.i = 0]
    /\ lastResp' = NoResp
    /\ UNCHANGED <<assessments, now, runs, deleters, call>>

\* transcribe_chunks, iteration i: update (i/total)*0.5; one speech-to-text
\* call, which returns a text of `len` characters or raises
transcribe_chunk(ok, len) ==
    /\ AtPc("stt")
    /\ processing_tasks' =
          update_progress(processing_tasks, CurKey, "stt",
                          ChunkProgress(cur.i, cur.n))
    /\ cur' = IF ok
              THEN IF cur.i + 1 = cur.n
                   THEN [cur EXCEPT !.tlen = JoinLen(cur.i, cur.tlen, len),
                                    !.i = 0, !.n = 0, !.pc = "analysis_begin"]
                   ELSE [cur EXCEPT !.tlen = JoinLen(cur.i, cur.tlen, len),
                                    !.i = @ + 1]
              ELSE Raise("stt")
    /\ lastResp' = NoResp
    /\ UNCHANGED <<assessments, now, runs, deleters, call>>

\* update 0.5; split_text; the prompts are fetched
run_analysis_begin ==
    /\ AtPc("analysis_begin")
    /\ processing_tasks' =
          update_progress(processing_tasks, CurKey, "analysis_begin",
                          Frac(1, 2))
    /\ cur' = [cur EXCEPT !.w = SplitTextCount(cur.tlen), !.j = 0,
                  !.tlen = 0,
                  !.pc = IF SplitTextCount(cur.tlen) = 0 THEN "merge"
                         ELSE "llm"]
    /\ lastResp' = NoResp
    /\ UNCHANGED <<assessments, now, runs, deleters, call>>

\* analyze_text_chunks, iteration j: update 0.5 + (j/total)*0.4; one LLM
\* call; ok = it returned and json.loads accepted the content
analyze_text_chunk(ok, a) ==
    /\ AtPc("llm")
    /\ processing_tasks' =
          update_progress(processing_tasks, CurKey, "llm",
                          WindowProgress(cur.j, cur.w))
    /\ cur' = IF ok
              THEN IF cur.j + 1 = cur.w
                   THEN [cur EXCEPT !.analyses = Append(@, a), !.j = 0,
                                    !.pc = "merge"]
                   ELSE [cur EXCEPT !.analyses = Append(@, a), !.j = @ + 1]
              ELSE Raise("llm")
    /\ lastResp' = NoResp
    /\ UNCHANGED <<assessments, now, runs, deleters, call>>

\* merge_analyses: a single analysis is returned as it is; otherwise update
\* 0.9 and one LLM call over the whole array
merge_analyses(ok, a) ==
    /\ AtPc("merge")
    /\ LET m == MergeAnalyses(cur.analyses,
                              IF ok THEN [ok |-> TRUE, content |-> <<ToJson(a)>>]
                              ELSE [ok |-> FALSE, content |-> <<>>])
       IN  /\ processing_tasks' =
                 IF m.calls = <<>> THEN processing_tasks
                 ELSE update_progress(processing_tasks, CurKey, "merge",
                                      Frac(9, 10))
           /\ cur' = IF m.ok
                     THEN [cur EXCEPT !.final = m.value, !.w = 0,
                                      !.analyses = <<>>, !.pc = "save"]
                     ELSE Raise("merge")
    /\ lastResp' = NoResp
    /\ UNCHANGED <<assessments, now, runs, deleters, call>>

\* update 0.95; the row is built (created_at = now) and the rows of the
\* identity are deleted; when the delete raises, the insert is skipped and
\* the exception printed
run_save(ok) ==
    /\ AtPc("save")
    /\ processing_tasks' =
          update_progress(processing_tasks, CurKey, "save", Frac(95, 100))
    /\ assessments' = IF ok THEN DeleteRows(assessments, CurId)
                      ELSE assessments
    /\ runs' = [runs EXCEPT ![cur.r].wrote = TRUE]
    /\ cur' = [cur EXCEPT !.created = now,
                          !.pc = IF ok THEN "insert" ELSE "finish"]
    /\ lastResp' = NoResp
    /\ UNCHANGED <<now, deleters, call>>

\* the new row is inserted; an exception is printed and swallowed
run_insert(ok) ==
    /\ AtPc("insert")
    /\ assessments' =
          IF ok
          THEN InsertRow(assessments,
                         Row(CurId, cur.final, cur.created))
          ELSE assessments
    /\ cur' = [cur EXCEPT !.pc = "finish"]
    /\ lastResp' = NoResp
    /\ UNCHANGED <<processing_tasks, now, runs, deleters, call>>

\* the "completed" block: written only when the key is present
RecordCompleted(tasks, key, t) ==
    IF HasTask(tasks, key)
    THEN [tasks EXCEPT ![key].status = "completed",
                       ![key].progress = Frac(1, 1),
                       ![key].completed_at = <<t>>,
                       ![key].message = "completed"]
    ELSE tasks

\* variant: the except block leaves the status as it is
RecordErrorKeepsStatus(tasks, key, t, msg) ==
    IF HasTask(tasks, key)
    THEN [tasks EXCEPT ![key].completed_at = <<t>>, ![key].message = "error"]
    ELSE tasks

\* the except block: written only when the key is present
RecordError(tasks, key, t, msg) ==
    IF HasTask(tasks, key)
    THEN [tasks EXCEPT ![key].status = "error",
                       ![key].error = msg,
                       ![key].completed_at = <<t>>,
                       ![key].message = "error"]
    ELSE tasks

\* the run's entry once it has ended: the bookkeeping of the request is
\* dropped, the files left behind and the outcome stay
EndRun(outcome, files) ==
    [runs EXCEPT ![cur.r] = [id |-> CurId, st |-> "done", force |-> FALSE,
                             replaced |-> None, prevRows |-> <<>>,
                             wrote |-> FALSE, files |-> files,
                             outcome |-> outcome]]

\* the TemporaryDirectory block is left, os.unlink(video_path) is tried (a
\* failure is printed), the record is set to completed
run_finish(unlinked) ==
    /\ AtPc("finish")
    /\ processing_tasks' = RecordCompleted(processing_tasks, CurKey, now)
    /\ runs' = EndRun("completed",
                      (runs[cur.r].files \ TempDirFiles)
                         \ (IF unlinked THEN {"video"} ELSE {}))
    /\ cur' = Idle
    /\ lastResp' = NoResp
    /\ UNCHANGED <<assessments, now, deleters, call>>

\* except Exception: the TemporaryDirectory block, if entered, has been
\* left by the exception; the error is recorded
run_except ==
    /\ AtPc("except")
    /\ processing_tasks' = RecordError(processing_tasks, CurKey, now, cur.err)
    /\ runs' = EndRun(IF cur.err = "KeyError" THEN "keyerror" ELSE "error",
                      runs[cur.r].files \ TempDirFiles)
    /\ cur' = Idle
    /\ lastResp' = NoResp
    /\ UNCHANGED <<assessments, now, deleters, call>>

\* pcs whose step begins with a call of update_progress
UpdatingPcs == {"download", "extract", "split", "stt_begin", "stt",
                "analysis_begin", "llm", "save"}

\* update_progress races with a delete_file thread: the membership test
\* finds the key, the thread deletes it, the lookup that follows raises
\* KeyError, which the run's except block catches
update_progress_race(d) ==
    /\ cur.r # 0
    /\ \/ cur.pc \in UpdatingPcs
       \/ cur.pc = "dlpart" /\ cur.hasLength
       \/ cur.pc = "merge" /\ Len(cur.analyses) # 1
    /\ deleters[d].pc = "evict"
    /\ TaskKey(deleters[d].id) = CurKey
    /\ HasTask(processing_tasks, CurKey)
    /\ processing_tasks' = EvictTask(processing_tasks, CurKey)
    /\ deleters' = [deleters EXCEPT ![d] = IdleDeleter]
    /\ cur' = Raise("KeyError")
    /\ lastResp' = NoResp
    /\ UNCHANGED <<assessments, now, runs, call>>

-----------------------------------------------------------------------------

Next ==
    \/ \E id \in Identities, force, ok1, ok2 \in BOOLEAN :
          analyze_file(id, force, ok1, ok2)
    \/ \E d \in 1..MaxDeleters, id \in Identities, ok \in BOOLEAN :
          delete_file_remove(d, id, ok)
    \/ \E d \in 1..MaxDeleters, ok \in BOOLEAN : delete_file_assessments(d, ok)
    \/ \E d \in 1..MaxDeleters : delete_file_evict(d)
    \/ \E r \in 1..MaxRuns : run_begin(r)
    \/ \E outcome \in {"sign", "get", "ok"}, parts \in 0..MaxParts,
          hasLength \in BOOLEAN : run_download(outcome, parts, hasLength)
    \/ \E ok \in BOOLEAN : run_download_part(ok)
    \/ \E ok \in BOOLEAN : run_extract(ok)
    \/ \E ok \in BOOLEAN, n \in 1..MaxChunks : run_split(ok, n)
    \/ run_transcribe_begin
    \/ \E ok \in BOOLEAN, len \in WhisperLens : transcribe_chunk(ok, len)
    \/ run_analysis_begin
    \/ \E ok \in BOOLEAN, a \in Analyses : analyze_text_chunk(ok, a)
    \/ \E ok \in BOOLEAN, a \in Analyses : merge_analyses(ok, a)
    \/ \E ok \in BOOLEAN : run_save(ok)
    \/ \E ok \in BOOLEAN : run_insert(ok)
    \/ \E unlinked \in BOOLEAN : run_finish(unlinked)
    \/ run_except
    \/ \E d \in 1..MaxDeleters : update_progress_race(d)

Spec == Init /\ [][Next]_vars

\* a step of the background runs: the event loop starts a scheduled run,
\* or carries out the next step of the run it is executing
RunStep ==
    \/ \E r \in 1..MaxRuns : run_begin(r)
    \/ \E outcome \in {"sign", "get", "ok"}, parts \in 0..MaxParts,
          hasLength \in BOOLEAN : run_download(outcome, parts, hasLength)
    \/ \E ok \in BOOLEAN : run_download_part(ok)
    \/ \E ok \in BOOLEAN : run_extract(ok)
    \/ \E ok \in BOOLEAN, n \in 1..MaxChunks : run_split(ok, n)
    \/ run_transcribe_begin
    \/ \E ok \in BOOLEAN, len \in WhisperLens : transcribe_chunk(ok, len)
    \/ run_analysis_begin
    \/ \E ok \in BOOLEAN, a \in Analyses : analyze_text_chunk(ok, a)
    \/ \E ok \in BOOLEAN, a \in Analyses : merge_analyses(ok, a)
    \/ \E ok \in BOOLEAN : run_save(ok)
    \/ \E ok \in BOOLEAN : run_insert(ok)
    \/ \E unlinked \in BOOLEAN : run_finish(unlinked)
    \/ run_except

\* the identity the requests are about where progress of the runs is
\* examined (a run of one identity needs nothing of another identity)
LiveIdentities == {<<"s1", "a.mp4">>}

LiveNext ==
    \/ \E id \in LiveIdentities, force, ok1, ok2 \in BOOLEAN :
          analyze_file(id, force, ok1, ok2)
    \/ \E d \in 1..MaxDeleters, id \in LiveIdentities, ok \in BOOLEAN :
          delete_file_remove(d, id, ok)
    \/ \E d \in 1..MaxDeleters, ok \in BOOLEAN : delete_file_assessments(d, ok)
    \/ \E d \in 1..MaxDeleters : delete_file_evict(d)
    \/ \E d \in 1..MaxDeleters : update_progress_race(d)
    \/ RunStep

\* the server keeps running: a scheduled run is started once the response
\* has been sent, and every external call of a run returns or raises, so
\* the run in execution takes its next step
FairSpec == Init /\ [][LiveNext]_vars /\ WF_vars(RunStep)

-----------------------------------------------------------------------------
(* The helper functions of the pipeline, applied on their own to inputs    *)
(* drawn from bounded sets.  Texts are sequences of characters, an LLM     *)
(* message content is a sequence of tokens, an audio file is the sequence  *)
(* of the byte sizes of its frames.                                        *)

Chars == {"a", "b"}

\* all sequences over S of length at most n
SeqsUpTo(S, n) == UNION {[1..k -> S] : k \in 0..n}

Min(x, y) == IF x < y THEN x ELSE y

\* math.ceil(x / y) for a positive y
Ceil(x, y) == (x + y - 1) \div y

\* int(max_tokens * chars_per_token), chars_per_token = 2.5
MaxCharsOf(mt) == (mt * 5) \div 2

\* variant: every window but the last runs one character into the next
split_text_overlap(text, mt) ==
    LET mc == MaxCharsOf(mt)
        n == Ceil(Len(text), mc)
    IN  [w \in 1..n |-> SubSeq(text, (w - 1) * mc + 1,
                                Min(w * mc + 1, Len(text)))]

\* split_text: one window text[i:i+max_chars] per i in
\* range(0, len(text), max_chars)
split_text(text, mt) ==
    LET mc == MaxCharsOf(mt)
        n == Ceil(Len(text), mc)
    IN  [w \in 1..n |-> SubSeq(text, (w - 1) * mc + 1,
                                Min(w * mc, Len(text)))]

\* outcome of one audio.transcriptions.create call: it raises, or it
\* returns a text
WhisperReplies == {[ok |-> FALSE, text |-> <<>>]}
                     \cup {[ok |-> TRUE, text |-> t] :
                              t \in SeqsUpTo(Chars, MaxReplyLen)}

RECURSIVE JoinNoSeparator(_)
\* variant: the transcripts are joined without a separator
JoinNoSeparator(transcripts) ==
    IF transcripts = <<>> THEN <<>>
    ELSE JoinNoSeparator(SubSeq(transcripts, 1, Len(transcripts) - 1))
            \o transcripts[Len(transcripts)]

RECURSIVE SpaceJoin(_)
\* " ".join(transcripts)
SpaceJoin(transcripts) ==
    IF transcripts = <<>> THEN <<>>
    ELSE IF Len(transcripts) = 1 THEN transcripts[1]
    ELSE SpaceJoin(SubSeq(transcripts, 1, Len(transcripts) - 1))
            \o <<" ">> \o transcripts[Len(transcripts)]

RECURSIVE TranscribeFrom(_, _, _, _, _)
\* the loop of transcribe_chunks from chunk i on: `calls` are the chunks
\* handed to speech-to-text so far, `transcripts` the texts returned
TranscribeFrom(chunk_paths, replies, i, calls, transcripts) ==
    IF i > Len(chunk_paths)
    THEN [ok |-> TRUE, text |-> SpaceJoin(transcripts), calls |-> calls]
    ELSE IF ~replies[i].ok
    THEN [ok |-> FALSE, text |-> <<>>,
          calls |-> Append(calls, chunk_paths[i])]
    ELSE TranscribeFrom(chunk_paths, replies, i + 1,
                        Append(calls, chunk_paths[i]),
                        Append(transcripts, replies[i].text))

\* transcribe_chunks as a function of the chunk list and of the outcomes of
\* the speech-to-text calls
transcribe_chunks(chunk_paths, replies) ==
    TranscribeFrom(chunk_paths, replies, 1, <<>>, <<>>)

\* chunk_0.mp3, chunk_1.mp3, ... as split_audio names them
ChunkPaths(n) == [k \in 1..n |-> k - 1]

\* bytes per unit of file_size_mb: os.path.getsize(..) / (1024 * 1024)
MiB == 1024 * 1024

\* byte sizes a frame of the audio may have
FrameBytes == {MiB \div 2, MiB}

RECURSIVE SumBytes(_)
\* os.path.getsize of a file made of these frames
SumBytes(frames) ==
    IF frames = <<>> THEN 0
    ELSE SumBytes(SubSeq(frames, 1, Len(frames) - 1)) + frames[Len(frames)]

\* variant: a file of exactly the ceiling is split
FitsCeilingStrict(size, max_size_mb) == size < max_size_mb * MiB

\* file_size_mb <= max_size_mb
FitsCeiling(size, max_size_mb) == size <= max_size_mb * MiB

\* variant: the quotient is rounded down
ChunksCountFloor(size, max_size_mb) == size \div (max_size_mb * MiB)

\* chunks_count = math.ceil(file_size_mb / max_size_mb)
ChunksCount(size, max_size_mb) == Ceil(size, max_size_mb * MiB)

\* what "ffmpeg -ss i*d -t d" with d = duration/count takes of the source:
\* the frames that begin in [i*d, (i+1)*d); a frame lasts one time unit,
\* frame f (from 0) begins at time f, the duration is the number of frames
Slice(frames, i, count) ==
    SubSeq(frames, Ceil(i * Len(frames), count) + 1,
           Ceil((i + 1) * Len(frames), count))

\* split_audio as a function of the file, the ceiling and the outcome of
\* the external commands ("ok", "probe": ffprobe fails, "encode": an ffmpeg
\* command fails): the commands it ran and the chunks it returns.  A chunk
\* is the part [ss/den, (ss+t)/den) of the source, with the frames it
\* holds; the re-encoding is taken to keep the size of every frame
split_audio(frames, max_size_mb, ffmpeg) ==
    LET size == SumBytes(frames)
        count == ChunksCount(size, max_size_mb)
    IN  IF FitsCeiling(size, max_size_mb)
        THEN [ok |-> TRUE, commands |-> <<"copy">>,
              chunks |-> <<[ss |-> 0, t |-> Len(frames), den |-> 1,
                            frames |-> frames, encoded |-> FALSE]>>]
        ELSE IF ffmpeg = "probe"
        THEN [ok |-> FALSE, commands |-> <<"ffprobe">>, chunks |-> <<>>]
        ELSE IF ffmpeg = "encode"
        THEN [ok |-> FALSE, commands |-> <<"ffprobe", "ffmpeg">>,
              chunks |-> <<>>]
        ELSE [ok |-> TRUE,
              commands |-> <<"ffprobe">> \o [k \in 1..count |-> "ffmpeg"],
              chunks |-> [k \in 1..count |->
                             [ss |-> (k - 1) * Len(frames),
                              t |-> Len(frames), den |-> count,
                              frames |-> Slice(frames, k - 1, count),
                              encoded |-> TRUE]]]

\* a helper function about to be applied to the arguments args
Call(fn, args) == [fn |-> fn, done |-> FALSE, args |-> args]

\* the application has returned (or raised): result
Return(result) == [fn |-> call.fn, done |-> TRUE, args |-> call.args,
                   result |-> result]

Calling(fn) == call.fn = fn /\ ~call.done

Called(fn) == call.fn = fn /\ call.done

\* (staff_id, filename) pairs, as the path parameters of a request may
\* be: a path segment may hold the character ':'
KeyIdentities == {<<"a", "b">>, <<"a:b", "c">>, <<"a", "b:c">>}

HelperInit ==
    /\ processing_tasks = [key \in TaskKeys |-> NoTask]
    /\ assessments = <<>>
    /\ now = 1
    /\ runs = <<>>
    /\ cur = Idle
    /\ deleters = [d \in 1..MaxDeleters |-> IdleDeleter]
    /\ lastResp = NoResp
    /\ \/ \E text \in SeqsUpTo(Chars, MaxTextLen), mt \in 1..MaxTokens :
             call = Call("split_text", [text |-> text, max_tokens |-> mt])
       \/ \E frames \in SeqsUpTo(FrameBytes, MaxFrames),
             mb \in 1..MaxSizeMb, ffmpeg \in {"ok", "probe", "encode"} :
             call = Call("split_audio", [frames |-> frames,
                                         max_size_mb |-> mb,
                                         ffmpeg |-> ffmpeg])
       \/ \E n \in 1..MaxChunks :
             \E replies \in [1..n -> WhisperReplies] :
                call = Call("transcribe_chunks",
                            [chunk_paths |-> ChunkPaths(n),
                             replies |-> replies])
       \/ \E analyses \in SeqsUpTo(Analyses, MaxAnalyses),
             reply \in LLMReplies :
             call = Call("merge_analyses", [analyses |-> analyses,
                                            reply |-> reply])
       \/ \E content \in LLMContents :
             call = Call("json_loads", [content |-> content])
       \/ \E id1, id2 \in KeyIdentities :
             call = Call("task_key", [ids |-> <<id1, id2>>])

call_split_text ==
    /\ Calling("split_text")
    /\ call' = Return(split_text(call.args.text, call.args.max_tokens))
    /\ UNCHANGED <<processing_tasks, assessments, now, runs, cur, deleters,
                   lastResp>>

call_split_audio ==
    /\ Calling("split_audio")
    /\ call' = Return(split_audio(call.args.frames, call.args.max_size_mb,
                                  call.args.ffmpeg))
    /\ UNCHANGED <<processing_tasks, assessments, now, runs, cur, deleters,
                   lastResp>>

call_transcribe_chunks ==
    /\ Calling("transcribe_chunks")
    /\ call' = Return(transcribe_chunks(call.args.chunk_paths,
                                        call.args.replies))
    /\ UNCHANGED <<processing_tasks, assessments, now, runs, cur, deleters,
                   lastResp>>

call_merge_analyses ==
    /\ Calling("merge_analyses")
    /\ call' = Return(MergeAnalyses(call.args.analyses, call.args.reply))
    /\ UNCHANGED <<processing_tasks, assessments, now, runs, cur, deleters,
                   lastResp>>

call_json_loads ==
    /\ Calling("json_loads")
    /\ call' = Return(json_loads(call.args.content))
    /\ UNCHANGED <<processing_tasks, assessments, now, runs, cur, deleters,
                   lastResp>>

\* task_key = f"{staff_id}:{filename}" computed for two identities
call_task_key ==
    /\ Calling("task_key")
    /\ call' = Return(<<TaskKey(call.args.ids[1]), TaskKey(call.args.ids[2])>>)
    /\ UNCHANGED <<processing_tasks, assessments, now, runs, cur, deleters,
                   lastResp>>

HelperNext ==
    \/ call_split_text
    \/ call_split_audio
    \/ call_transcribe_chunks
    \/ call_merge_analyses
    \/ call_json_loads
    \/ call_task_key

HelperSpec == HelperInit /\ [][HelperNext]_vars

-----------------------------------------------------------------------------
(* Properties *)

\* the step is an analyze request for identity id
IsAnalyzeOf(id) == lastResp' # NoResp /\ lastResp'.id = id

\* the runs of identity id that have been accepted and have not ended
InFlight(id) == {r \in RunIds : runs[r].id = id /\ runs[r].st # "done"}

NoDeleteInProgress == \A d \in 1..MaxDeleters : deleters[d].pc = "idle"

\* C1: an analyze request (with or without force) for an identity whose
\* record is processing answers "processing", leaves the registry as it is
\* (no record created or replaced) and schedules no run
C1_ProcessingIsIdempotent ==
    [][\A id \in Identities :
          (processing_tasks[TaskKey(id)].status = "processing"
              /\ IsAnalyzeOf(id))
          => /\ lastResp'.kind = "processing"
             /\ processing_tasks' = processing_tasks
             /\ runs' = runs]_vars

\* C1, witness: a forced request has just been answered "processing" for a
\* record that is still processing
C1_Witness ==
    /\ lastResp.kind = "processing"
    /\ lastResp.force
    /\ processing_tasks[TaskKey(lastResp.id)].status = "processing"

\* C2 (as claimed): at any time at most one run of an identity is in
\* flight (accepted and not ended)
C2_OneRunInFlight == \A id \in Identities : Cardinality(InFlight(id)) <= 1

\* C3 (as claimed): no step of a run lowers the progress of the record
\* that was created together with that run
C3_ProgressMonotone ==
    [][\A key \in TaskKeys :
          (/\ cur.r # 0
           /\ processing_tasks[key].owner = cur.r
           /\ processing_tasks'[key].owner = cur.r)
          => processing_tasks'[key].progress >= processing_tasks[key].progress
      ]_vars

C6_CompletedReturnsPersisted ==
    [][\A id \in Identities :
          (/\ processing_tasks[TaskKey(id)].status = "completed"
           /\ IsAnalyzeOf(id)
           /\ ~lastResp'.force
           /\ lastResp'.readOk
           /\ NoDeleteInProgress)
          => /\ lastResp'.kind = "analysis"
             /\ processing_tasks' = processing_tasks
             /\ runs' = runs]_vars

\* C7 (as claimed; the second half stated for the runs no delete request
\* overlaps): a forced request on a completed record puts a fresh
\* processing record in its place and schedules a run, and when that run
\* ends completed the table holds exactly one row of the identity, created
\* later than every row it held when the request was made
C7_ForcedRerunReplaces ==
    [][/\ \A id \in Identities :
             (/\ processing_tasks[TaskKey(id)].status = "completed"
              /\ IsAnalyzeOf(id)
              /\ lastResp'.force)
             => /\ Len(runs') = Len(runs) + 1
                /\ runs'[Len(runs')].id = id
                /\ processing_tasks'[TaskKey(id)] = NewTask(now, Len(runs'))
                /\ now > processing_tasks[TaskKey(id)].started_at
       /\ (/\ cur.r # 0 /\ cur.pc = "finish" /\ cur' = Idle
           /\ runs[cur.r].force
           /\ runs[cur.r].replaced = "completed"
           /\ processing_tasks'[CurKey].owner = cur.r
           /\ processing_tasks'[CurKey].status = "completed"
           /\ NoDeleteInProgress)
          => LET rows == SelectRows(assessments', CurId)
                 prev == runs[cur.r].prevRows
             IN  /\ Len(rows) = 1
                 /\ \A k \in 1..Len(prev) :
                       rows[1].created_at > prev[k].created_at]_vars

\* C8 (as claimed): once a run has ended, none of the temporary files it
\* created is left
C8_NoTempFilesLeft ==
    \A r \in RunIds : runs[r].st = "done" => runs[r].files = {}

\* C9 (as claimed): a record is changed only by steps of the run that was
\* scheduled together with it
C9_RecordChangedByOwnRunOnly ==
    [][\A key \in TaskKeys :
          (/\ HasTask(processing_tasks, key)
           /\ HasTask(processing_tasks', key)
           /\ processing_tasks'[key].owner = processing_tasks[key].owner
           /\ processing_tasks'[key] # processing_tasks[key])
          => cur.r = processing_tasks[key].owner]_vars

\* C10: the table never holds more than one row of an identity
C10_AtMostOneRowPerIdentity ==
    \A id \in Identities : Len(SelectRows(assessments, id)) <= 1

\* C10, witness: a forced re-run has deleted the row stored before it and
\* inserted its own, which is now the only row of the identity
C10_Witness ==
    /\ cur.r # 0 /\ cur.pc = "finish"
    /\ runs[cur.r].force
    /\ runs[cur.r].prevRows # <<>>
    /\ SelectRows(assessments, CurId)
          = <<Row(CurId, cur.final, cur.created)>>
    /\ cur.created > runs[cur.r].prevRows[1].created_at

\* C11: in the state an analyze request that answered "started" leaves
\* behind, a status read of the identity finds the record, which has status
\* processing and progress 0, and the run scheduled with it has not begun
C11_RecordExistsWhenStarted ==
    lastResp.kind = "started"
       => LET st == get_task_status(processing_tasks, lastResp.id)
          IN  /\ st.code = 200
              /\ st.body.status = "processing"
              /\ st.body.progress = 0
              /\ st.body.owner = Len(runs)
              /\ runs[st.body.owner].st = "pending"

\* C11, witness: a forced request has just replaced a completed record and
\* answered "started"; the status read finds the new record at progress 0
C11_Witness ==
    /\ lastResp.kind = "started"
    /\ lastResp.replaced = "completed"
    /\ get_task_status(processing_tasks, lastResp.id).code = 200
    /\ get_task_status(processing_tasks, lastResp.id).body.progress = 0

RECURSIVE Concat(_)
\* the sequences of a sequence, one after the other
Concat(seqs) ==
    IF seqs = <<>> THEN <<>>
    ELSE Concat(SubSeq(seqs, 1, Len(seqs) - 1)) \o seqs[Len(seqs)]

\* C12 (as claimed): split_text applied to a transcript no longer than the
\* window budget, the empty one included, returns exactly one window, the
\* transcript itself
C12_ShortTextIsOneWindow ==
    (/\ Called("split_text")
     /\ Len(call.args.text) <= MaxCharsOf(call.args.max_tokens))
    => call.result = <<call.args.text>>

\* C13: the windows split_text returns (for a positive budget) are at most
\* the budget long, all but the last exactly the budget long, and put one
\* after the other in order they are the transcript
C13_WindowsPartitionText ==
    Called("split_text")
    => LET windows == call.result
           budget == MaxCharsOf(call.args.max_tokens)
       IN  /\ \A w \in 1..Len(windows) : Len(windows[w]) <= budget
           /\ \A w \in 1..(Len(windows) - 1) : Len(windows[w]) = budget
           /\ Concat(windows) = call.args.text

\* C13, witness: a transcript has been split into three windows, the last
\* shorter than the budget
C13_Witness ==
    /\ Called("split_text")
    /\ Len(call.result) = 3
    /\ Len(call.result[3]) < MaxCharsOf(call.args.max_tokens)
    /\ call.result[1] # call.result[2]

\* C14: merge_analyses given one partial analysis returns it and makes no
\* LLM call; given more than one it makes one LLM call, whose user content
\* is the array of the partial analyses in their order, and when the call
\* returns the text of an object, returns that object
C14_MergeSingleOrOneCall ==
    Called("merge_analyses")
    => LET analyses == call.args.analyses
           reply == call.args.reply
           r == call.result
       IN  /\ Len(analyses) = 1
                 => r.ok /\ r.value = analyses[1] /\ r.calls = <<>>
           /\ Len(analyses) > 1
                 => /\ Len(r.calls) = 1
                    /\ Len(r.calls[1]) = Len(analyses)
                    /\ \A k \in 1..Len(analyses) :
                          r.calls[1][k] = ToJson(analyses[k])
                    /\ \A a \in Analyses :
                          (reply.ok /\ reply.content = <<ToJson(a)>>)
                          => r.ok /\ r.value = a

\* C14, witness: three partial analyses, not all the same, have been merged
\* by one LLM call that returned an object
C14_Witness ==
    /\ Called("merge_analyses")
    /\ Len(call.args.analyses) = 3
    /\ call.args.analyses[1] # call.args.analyses[3]
    /\ Len(call.result.calls) = 1
    /\ call.result.ok
    /\ call.result.value = "A2"

RECURSIVE OffsetOf(_, _)
\* where the text of reply k begins in the joined transcript: after the
\* texts of the replies before it and one separator for each of them
OffsetOf(replies, k) ==
    IF k = 1 THEN 0
    ELSE OffsetOf(replies, k - 1) + Len(replies[k - 1].text) + 1

\* C15: transcribe_chunks hands the chunks to speech-to-text one by one in
\* the order of the list; when every call returns, the transcript is the
\* returned texts in that order with exactly one space between neighbours;
\* when a call fails, no transcript is returned and no later chunk is
\* handed over
C15_TranscribeInOrderJoined ==
    Called("transcribe_chunks")
    => LET chunk_paths == call.args.chunk_paths
           replies == call.args.replies
           n == Len(chunk_paths)
           failing == {k \in 1..n : ~replies[k].ok}
           r == call.result
       IN  IF failing = {}
           THEN /\ r.ok
                /\ r.calls = chunk_paths
                /\ Len(r.text) = OffsetOf(replies, n) + Len(replies[n].text)
                /\ \A k \in 1..n :
                      SubSeq(r.text, OffsetOf(replies, k) + 1,
                             OffsetOf(replies, k) + Len(replies[k].text))
                         = replies[k].text
                /\ \A k \in 2..n : r.text[OffsetOf(replies, k)] = " "
           ELSE /\ ~r.ok
                /\ r.text = <<>>
                /\ \E k \in failing :
                      /\ \A j \in failing : k <= j
                      /\ r.calls = SubSeq(chunk_paths, 1, k)

\* C15, witness: two chunks have been transcribed, to "a" and to "b", and
\* the transcript is "a b"
C15_Witness ==
    /\ Called("transcribe_chunks")
    /\ call.result.ok
    /\ call.result.calls = <<0, 1>>
    /\ call.result.text = <<"a", " ", "b">>

\* the ceiling of a split_audio call, in bytes
CeilingBytes == call.args.max_size_mb * MiB

\* the frames of the chunks, chunk after chunk
ChunkFrames(chunks) == Concat([k \in 1..Len(chunks) |-> chunks[k].frames])

\* C16: split_audio applied to a file larger than the ceiling returns (when
\* the external commands succeed) as many chunks as the least n with
\* n * ceiling >= size; chunk i (from 0) is the slice [i*d, (i+1)*d) of the
\* source with d = duration / n, so that the first slice begins at 0, the
\* last ends at the duration, and the chunks in order hold every frame of
\* the source exactly once
C16_ChunksCoverDuration ==
    (/\ Called("split_audio")
     /\ SumBytes(call.args.frames) > CeilingBytes
     /\ call.result.ok)
    => LET chunks == call.result.chunks
           n == Len(chunks)
           duration == Len(call.args.frames)
       IN  /\ n * CeilingBytes >= SumBytes(call.args.frames)
           /\ (n - 1) * CeilingBytes < SumBytes(call.args.frames)
           /\ \A k \in 1..n :
                 /\ chunks[k].t * n = duration * chunks[k].den
                 /\ chunks[k].ss = (k - 1) * chunks[k].t
                 /\ chunks[k].encoded
           /\ chunks[n].ss + chunks[n].t = duration * chunks[n].den
           /\ ChunkFrames(chunks) = call.args.frames

\* C16, witness: a file of four frames has been split into three chunks
\* (the slice length is not a whole number of frames)
C16_Witness ==
    /\ Called("split_audio")
    /\ call.result.ok
    /\ Len(call.args.frames) = 4
    /\ Len(call.result.chunks) = 3
    /\ call.result.chunks[3].ss = 8

\* C17 (as claimed): every chunk split_audio returns is at most the ceiling
\* in bytes
C17_ChunksWithinCeiling ==
    (Called("split_audio") /\ call.result.ok)
    => \A k \in 1..Len(call.result.chunks) :
          SumBytes(call.result.chunks[k].frames) <= CeilingBytes

\* C20: split_audio applied to a file of at most the ceiling returns one
\* chunk, a copy of the file, and runs neither ffprobe nor ffmpeg
C20_SmallFileIsCopied ==
    (/\ Called("split_audio")
     /\ SumBytes(call.args.frames) <= CeilingBytes)
    => /\ call.result.ok
       /\ call.result.commands = <<"copy">>
       /\ Len(call.result.chunks) = 1
       /\ call.result.chunks[1].frames = call.args.frames
       /\ ~call.result.chunks[1].encoded

\* C20, witness: a file of exactly the ceiling has been copied, where
\* ffprobe would have failed had it been run
C20_Witness ==
    /\ Called("split_audio")
    /\ call.args.frames # <<>>
    /\ SumBytes(call.args.frames) = CeilingBytes
    /\ call.args.ffmpeg = "probe"
    /\ call.result.ok
    /\ call.result.commands = <<"copy">>

\* C18 (as claimed): parsing an LLM message content accepts the text of an
\* object, and the same text wrapped in code-fence markers, with the same
\* result; it fails on an empty content and on one that is not JSON
C18_FencedJsonAccepted ==
    Called("json_loads")
    => /\ \A a \in Analyses :
             call.args.content \in {<<ToJson(a)>>, <<Fence, ToJson(a), Fence>>}
             => call.result.ok /\ call.result.value = a
       /\ call.args.content \in {<<>>, <<"junk">>} => ~call.result.ok

\* C19: a record created together with run r does not stay in status
\* processing for ever: it gets another status (completed or error, the
\* only other ones), or it is evicted by a delete request
C19_RunLeavesProcessing ==
    \A id \in LiveIdentities, r \in 1..MaxRuns :
       (processing_tasks[TaskKey(id)].owner = r
           /\ processing_tasks[TaskKey(id)].status = "processing")
       ~> ~(processing_tasks[TaskKey(id)].owner = r
               /\ processing_tasks[TaskKey(id)].status = "processing")

\* C19, witness: a run has ended and the record created with it, still in
\* the registry, has status completed
C19_Witness ==
    \E r \in RunIds :
       /\ runs[r].st = "done"
       /\ runs[r].outcome = "completed"
       /\ processing_tasks[TaskKey(runs[r].id)].owner = r
       /\ processing_tasks[TaskKey(runs[r].id)].status = "completed"

\* C21 (as claimed): when a run sets the record of its identity to
\* completed, the table holds a row of that identity whose analysis is the
\* run's final analysis (so a run whose save step failed does not do so)
C21_CompletedMeansPersisted ==
    [][(/\ cur.r # 0 /\ cur.pc = "finish" /\ cur' = Idle
        /\ processing_tasks[CurKey].status # "completed"
        /\ processing_tasks'[CurKey].status = "completed")
       => \E k \in 1..Len(assessments') :
             /\ RowMatches(assessments'[k], CurId)
             /\ assessments'[k].analysis = cur.final]_vars

\* C22 (as claimed): when a delete request for an identity returns, the
\* table holds no row of the identity and the registry no record of it;
\* and a run whose record has been evicted by a delete request does not
\* insert a row afterwards
C22_DeleteLeavesNothing ==
    [][/\ \A d \in 1..MaxDeleters :
             (deleters[d].pc = "evict" /\ deleters'[d].pc = "idle")
             => /\ SelectRows(assessments', deleters[d].id) = <<>>
                /\ ~HasTask(processing_tasks', TaskKey(deleters[d].id))
       /\ (/\ cur.r # 0 /\ cur.pc = "insert"
           /\ processing_tasks[CurKey].owner # cur.r)
          => assessments' = assessments]_vars

\* C23 (as claimed): every record of the registry is consistent: status
\* processing goes with no completion time and no error; completed with
\* progress 1.0, a completion time and no error; error with an error
\* message and a completion time
C23_RecordConsistent ==
    \A key \in TaskKeys :
       HasTask(processing_tasks, key)
       => LET task == processing_tasks[key]
          IN  /\ task.status = "processing"
                    => task.completed_at = NoTime /\ task.error = None
              /\ task.status = "completed"
                    => /\ task.progress = Frac(1, 1)
                       /\ task.completed_at # NoTime
                       /\ task.error = None
              /\ task.status = "error"
                    => task.error # None /\ task.completed_at # NoTime

\* C24 (as claimed): the registry keys of two different identities are
\* different, whatever the strings, so that no request or run step of one
\* identity reaches the record of another
C24_KeysDistinct ==
    (Called("task_key") /\ call.args.ids[1] # call.args.ids[2])
    => call.result[1] # call.result[2]

\* C25 (as claimed): a run that reaches the analysis stage gets W >= 1
\* windows from split_text; when it reaches merge_analyses it has made W
\* analysis calls and hands over W >= 1 partial analyses, and the merge
\* LLM call is made exactly when W > 1
C25_AtLeastOneWindow ==
    [][/\ (cur.r # 0 /\ cur.pc = "analysis_begin"
              /\ cur'.pc \in {"llm", "merge"})
          => cur'.w >= 1
       /\ (cur.r # 0 /\ cur.pc = "merge" /\ cur'.pc \in {"save", "except"}
              /\ deleters' = deleters)
          => /\ cur.w >= 1
             /\ Len(cur.analyses) = cur.w
             /\ (MergeAnalyses(cur.analyses,
                               [ok |-> FALSE, content |-> <<>>]).calls # <<>>)
                   <=> cur.w > 1]_vars

=============================================================================
